---- MODULE Spec2Model ----
(***************************************************************************)
(* Scan reconciliation pipeline of the book-tracking application           *)
(* (src/src/App.jsx, second revision, lines 306-711; the same pipeline is  *)
(* found in src/unnamed/part_001).                                         *)
(*                                                                         *)
(* The model follows the JavaScript event loop: every action is one        *)
(* macrotask, i.e. a handler run from its entry (or from the resumption    *)
(* after an await on a network call) up to its next network await or its   *)
(* return.  Awaits on already-settled promises of the program's own async  *)
(* functions (await addBookToDB(...)) resume in the same macrotask.        *)
(*                                                                         *)
(* Strings of the user interface are transliterated to ASCII:              *)
(*   "added: "      stands for the success prefix   (App.jsx:453)          *)
(*   "registered: " stands for the duplicate prefix (App.jsx:411)          *)
(*   "no info"      stands for the not-found text   (App.jsx:488)          *)
(***************************************************************************)
EXTENDS Integers, Sequences, FiniteSets, Bags, TLC

----------------------------------------------------------------------------
(* Bounds of the model *)

\* number of scan cycles (admitted decodes) explored
MaxCycles == 2

\* number of scan cycles explored where three cycles have to interleave
RaceCycles == 3

\* number of scan cycles explored with every decoder callback observed
GateCycles == 1

\* number of scan cycles explored with the full range of provider answers
InputCycles == 1

\* number of scan cycles explored with the category pull-down in use
CategoryCycles == 1

\* number of scan cycles explored with the list being fetched
ListCycles == 2

\* number of scan cycles explored together with the other handlers
AppCycles == 1

\* number of manual adds, deletes and status edits explored
MaxRequests == 1

\* granularity of the clock: clock steps per cool-down period
TicksPerCooldown == 2

----------------------------------------------------------------------------
(* Program constants *)

\* delay of the re-arm timer in resetScanLock, in milliseconds
COOLDOWN == 3000

Null == "<null>"
Undefined == "<undefined>"

JSNull == [type |-> "null"]
JSUndefined == [type |-> "undefined"]

\* JavaScript truthiness of a string-or-absent value
Truthy(v) == v \notin {Null, Undefined, ""}

\* JavaScript truthiness of an object-or-absent or array-or-absent value
IsObject(o) == o.type \in {"object", "array"}

----------------------------------------------------------------------------
(* Inputs *)

ISBN_A == "9784061530194"
ISBN_B == "9790000000001"
JAN_CODE == "4901234567894"

\* strings the decoder can deliver
RawScans == {ISBN_A, ISBN_B, JAN_CODE}

\* values of the category pull-down: "" is "no category"
CategoryOptions == {"", "Novel"}

\* summary objects of the primary provider for a request by isbn
Summaries(isbn) ==
  { [type |-> "object", title |-> "T", author |-> "A", publisher |-> "P",
     cover |-> "https://cover.openbd.jp/1.jpg", isbn |-> i,
     category |-> "Shelf 3"] :
      i \in {isbn, Undefined} }

\* outcomes of fetch + json() on the primary provider
PrimaryResponses(isbn) ==
  { [ok |-> FALSE, message |-> "Failed to fetch"] }
    \cup { [ok |-> TRUE, data |-> <<JSNull>>] }
    \cup { [ok |-> TRUE, data |-> <<[type |-> "object", summary |-> s]>>] :
             s \in Summaries(isbn) }

\* volumeInfo objects of the secondary provider
Volumes ==
  { [type |-> "object", title |-> "G",
     authors |-> [type |-> "array", items |-> <<"A", "B">>],
     publisher |-> "P",
     imageLinks |-> [type |-> "object", thumbnail |-> "http://g/1.jpg"]] }

\* outcomes of fetch + json() on the secondary provider
SecondaryResponses ==
  { [ok |-> FALSE, message |-> "Failed to fetch"] }
    \cup { [ok |-> TRUE, items |-> <<>>] }
    \cup { [ok |-> TRUE, items |-> <<[volumeInfo |-> v]>>] : v \in Volumes }

\* strings the decoder can deliver from symbologies other than EAN-13 (the
\* scanner is configured with no format restriction)
LooseScans == RawScans \cup {"978", "979000000000X"}

\* what fetch or json() can throw
FailureMessages == {"Failed to fetch", "Unexpected end of JSON input"}

\* summary objects of the primary provider, with the covers it can carry and
\* with or without author and publisher
SummariesAll(isbn) ==
  { [type |-> "object", title |-> "T", author |-> ap, publisher |-> ap,
     cover |-> cv, isbn |-> i] :
      ap \in {"AP", Undefined},
      cv \in {"https://cover.openbd.jp/1.jpg", "http://cover.openbd.jp/1.jpg",
              ""},
      i \in {isbn, Undefined} }

PrimaryResponsesAll(isbn) ==
  { [ok |-> FALSE, message |-> m] : m \in FailureMessages }
    \cup { [ok |-> TRUE, data |-> <<>>], [ok |-> TRUE, data |-> <<JSNull>>] }
    \cup { [ok |-> TRUE, data |-> <<[type |-> "object", summary |-> s]>>] :
             s \in SummariesAll(isbn) }

\* volumeInfo objects of the secondary provider with each field present,
\* absent or empty
VolumesAll ==
  { [type |-> "object", title |-> t, authors |-> a, publisher |-> p,
     imageLinks |-> l] :
      t \in {"G", Undefined},
      a \in {JSUndefined, [type |-> "array", items |-> <<>>],
             [type |-> "array", items |-> <<"A">>],
             [type |-> "array", items |-> <<"A", "B">>]},
      p \in {"P", Undefined},
      l \in {JSUndefined, [type |-> "object", thumbnail |-> Undefined],
             [type |-> "object", thumbnail |-> "http://g/1.jpg"]} }

\* a volume that follows the first one in an answer of several volumes
SecondVolume ==
  [type |-> "object", title |-> "H",
   authors |-> [type |-> "array", items |-> <<"C">>],
   publisher |-> "Q",
   imageLinks |-> [type |-> "object", thumbnail |-> "http://g/2.jpg"]]

SecondaryResponsesAll ==
  { [ok |-> FALSE, message |-> m] : m \in FailureMessages }
    \cup { [ok |-> TRUE, items |-> <<>>] }
    \cup { [ok |-> TRUE, items |-> <<[volumeInfo |-> v]>>] : v \in VolumesAll }
    \cup { [ok |-> TRUE,
            items |-> <<[volumeInfo |-> v], [volumeInfo |-> SecondVolume]>>] :
             v \in Volumes }

\* texts of the manual title field: "" is the empty field
ManualTitles == {"", "My book"}

\* values the status pull-down of a book can be set to
StatusOptions == {"Reading"}

----------------------------------------------------------------------------
(* Pure functions *)

\* isbn.match(/^(978|979)/)
StartsWith(s, p) == Len(s) >= Len(p) /\ SubSeq(s, 1, Len(p)) = p

MatchesIsbnPrefix(s) == StartsWith(s, "978") \/ StartsWith(s, "979")

\* String.prototype.replace(from, to) with a string pattern: first occurrence
RECURSIVE ReplaceFrom(_, _, _, _)
ReplaceFrom(s, from, to, i) ==
  IF i + Len(from) - 1 > Len(s) THEN s
  ELSE IF SubSeq(s, i, i + Len(from) - 1) = from
       THEN SubSeq(s, 1, i - 1) \o to \o SubSeq(s, i + Len(from), Len(s))
       ELSE ReplaceFrom(s, from, to, i + 1)

Replace(s, from, to) == ReplaceFrom(s, from, to, 1)

\* Array.prototype.join
RECURSIVE Join(_, _)
Join(list, sep) ==
  IF Len(list) = 0 THEN ""
  ELSE IF Len(list) = 1 THEN list[1]
  ELSE list[1] \o sep \o Join(Tail(list), sep)

SuccessMsg(title) == "added: " \o title
DuplicateMsg(title) == "registered: " \o title
NotFoundMsg == "no info"
SaveErrorAlert(message) == "save error: " \o message
StoreErrorMessage == "insert failed"
ErrorAlert(message) == "error: " \o message

----------------------------------------------------------------------------
(* State *)

VARIABLES
  lastScannedIsbnRef,  \* the Scan Lock: Null or the last admitted string
  scanMessage,         \* the status message on display ("" is none)
  books,               \* the in-memory book list
  selectedCategory,    \* value of the category pull-down
  isCameraOpen,        \* whether the scanner component is mounted
  scannerCategory,     \* selectedCategory seen by the handler the scanner holds
  dbBooks,             \* the 'books' table of the store, in insertion order
  cycles,              \* the scan cycles started so far, in admission order
  timers,              \* the pending timeouts of resetScanLock, oldest first
  fetchSent,           \* fetchBooks requests the store has not answered yet
  fetchResponses,      \* fetchBooks responses on their way to the client
  lastCall,            \* observer: the latest decoder callback and its verdict
  audioWorks,          \* whether the browser can produce the tone of playBeep
  requests,            \* the store calls of the handlers other than the scan
  inputText            \* the text of the manual title field

vars == <<lastScannedIsbnRef, scanMessage, books, selectedCategory,
          isCameraOpen, scannerCategory, dbBooks, cycles, timers,
          fetchSent, fetchResponses, lastCall, audioWorks, requests, inputText>>

uiVars == <<scanMessage, books, selectedCategory, isCameraOpen,
            scannerCategory>>
storeVars == <<dbBooks, fetchSent, fetchResponses>>

CycleIds == 1 .. Len(cycles)

TickMs == COOLDOWN \div TicksPerCooldown

\* playBeep: the number of exceptions one call raises and catches itself
BeepFailures == IF audioWorks THEN 0 ELSE 1

\* variant: both providers are queried at admission
NewCycle_bothLookups(isbn) ==
  [isbn |-> isbn, pc |-> "primary", title |-> Undefined,
   insertData |-> JSUndefined, resp |-> JSUndefined,
   primaryCalls |-> 1, secondaryCalls |-> 1, dupQueries |-> 0, inserts |-> 0,
   beeps |-> 1, announced |-> <<>>, alerts |-> <<>>, timersArmed |-> 0,
   dupFound |-> FALSE, primaryResult |-> "pending",
   storeResult |-> "none", rowId |-> 0,
   secondaryResult |-> "none", info |-> JSUndefined, fetches |-> 0,
   beepFailures |-> BeepFailures, categoryAtScan |-> selectedCategory,
   caught |-> Undefined, googleItems |-> <<>>]

\* frame of a handleScanSuccess call right after its admission step
NewCycle(isbn) ==
  [isbn |-> isbn, pc |-> "primary", title |-> Undefined,
   insertData |-> JSUndefined, resp |-> JSUndefined,
   primaryCalls |-> 1, secondaryCalls |-> 0, dupQueries |-> 0, inserts |-> 0,
   beeps |-> 1, announced |-> <<>>, alerts |-> <<>>, timersArmed |-> 0,
   dupFound |-> FALSE, primaryResult |-> "pending",
   storeResult |-> "none", rowId |-> 0,
   secondaryResult |-> "none", info |-> JSUndefined, fetches |-> 0,
   beepFailures |-> BeepFailures, categoryAtScan |-> selectedCategory,
   caught |-> Undefined, googleItems |-> <<>>]

Init ==
  /\ lastScannedIsbnRef = Null
  /\ scanMessage = ""
  /\ books = <<>>
  /\ selectedCategory = ""
  /\ isCameraOpen = FALSE
  /\ scannerCategory = ""
  /\ dbBooks = <<>>
  /\ cycles = <<>>
  /\ timers = <<>>
  /\ fetchSent = 1
  /\ fetchResponses = EmptyBag
  /\ lastCall = [arg |-> Null, admitted |-> FALSE, flip |-> FALSE,
                timeouts |-> 0]
  /\ audioWorks = TRUE
  /\ requests = <<>>
  /\ inputText = ""

\* the same in a browser where the tone may fail to be produced
InitTone ==
  /\ lastScannedIsbnRef = Null
  /\ scanMessage = ""
  /\ books = <<>>
  /\ selectedCategory = ""
  /\ isCameraOpen = FALSE
  /\ scannerCategory = ""
  /\ dbBooks = <<>>
  /\ cycles = <<>>
  /\ timers = <<>>
  /\ fetchSent = 1
  /\ fetchResponses = EmptyBag
  /\ lastCall = [arg |-> Null, admitted |-> FALSE, flip |-> FALSE,
                timeouts |-> 0]
  /\ audioWorks \in BOOLEAN
  /\ requests = <<>>
  /\ inputText = ""

----------------------------------------------------------------------------
(* Helpers of the handlers *)

\* resetScanLock called by cycle c at the call site src
ArmTimer(ts, c, src) ==
  Append(ts, [cycle |-> c, src |-> src, remaining |-> COOLDOWN])

\* variant: the payload is the draft spread under the defaults, so that a
\* category of the draft replaces the selected one
InsertData_draftCategory(bookData, category) ==
  [status |-> "Unread",
   category |-> IF "category" \in DOMAIN bookData THEN bookData.category
                ELSE IF category = "" THEN Null ELSE category,
   title |-> bookData.title,
   author |-> bookData.author,
   publisher |-> bookData.publisher,
   cover_url |-> bookData.cover,
   isbn |-> bookData.isbn]

\* the payload addBookToDB builds for an object argument
InsertData(bookData, category) ==
  [status |-> "Unread",
   category |-> IF category = "" THEN Null ELSE category,
   title |-> bookData.title,
   author |-> bookData.author,
   publisher |-> bookData.publisher,
   cover_url |-> bookData.cover,
   isbn |-> bookData.isbn]

\* variant: the sentinels and the empty cover are not applied
GoogleBookData_rawFields(info, isbn) ==
  [title |-> info.title,
   author |-> IF IsObject(info.authors)
              THEN Join(info.authors.items, ", ") ELSE Undefined,
   publisher |-> info.publisher,
   cover |-> IF IsObject(info.imageLinks)
             THEN Replace(info.imageLinks.thumbnail, "http://", "https://")
             ELSE Undefined,
   isbn |-> isbn]

\* the draft built from the first volume of the secondary provider
GoogleBookData(info, isbn) ==
  [title |-> IF Truthy(info.title) THEN info.title ELSE "title unknown",
   author |-> IF IsObject(info.authors)
              THEN Join(info.authors.items, ", ") ELSE "author unknown",
   publisher |-> IF Truthy(info.publisher) THEN info.publisher
                 ELSE "publisher unknown",
   cover |-> Replace(IF IsObject(info.imageLinks)
                        /\ Truthy(info.imageLinks.thumbnail)
                     THEN info.imageLinks.thumbnail ELSE "",
                     "http://", "https://"),
   isbn |-> isbn]

\* showSuccessMessage(title) run by cycle c: the cycle returns after it
ShowSuccessAndReturn(cy, title) ==
  [cy EXCEPT !.pc = "done",
             !.announced = Append(@, SuccessMsg(title)),
             !.timersArmed = @ + 1]

\* first part of addBookToDB(bookData) run by cycle c, up to its first await
CallAddBookToDB(cy, bookData) ==
  LET data == InsertData(bookData, scannerCategory) IN
  IF Truthy(data.isbn)
  THEN [cy EXCEPT !.pc = "dupSent", !.title = bookData.title,
                  !.insertData = data, !.dupQueries = @ + 1]
  ELSE [cy EXCEPT !.pc = "insSent", !.title = bookData.title,
                  !.insertData = data, !.inserts = @ + 1]

----------------------------------------------------------------------------
(* The scan pipeline: handleScanSuccess and addBookToDB *)

\* the two early returns of handleScanSuccess
Rejects(isbn) == lastScannedIsbnRef = isbn \/ ~MatchesIsbnPrefix(isbn)

\* variant: the lock is written before the pattern is checked
handleScanSuccess_lockFirst(isbn) ==
  /\ isCameraOpen
  /\ IF lastScannedIsbnRef = isbn
     THEN UNCHANGED <<lastScannedIsbnRef, cycles, timers, uiVars, storeVars,
                     audioWorks, requests, inputText>>
     ELSE IF ~MatchesIsbnPrefix(isbn)
     THEN /\ lastScannedIsbnRef' = isbn
          /\ UNCHANGED <<cycles, timers, uiVars, storeVars, audioWorks, requests, inputText>>
     ELSE /\ lastScannedIsbnRef' = isbn
          /\ cycles' = Append(cycles, NewCycle(isbn))
          /\ UNCHANGED <<timers, uiVars, storeVars, audioWorks, requests, inputText>>

\* variant: playBeep has no try/catch, so its exception leaves
\* handleScanSuccess before the try block is entered
handleScanSuccess_beepThrows(isbn) ==
  /\ isCameraOpen
  /\ IF Rejects(isbn)
     THEN UNCHANGED <<lastScannedIsbnRef, cycles, timers, uiVars, storeVars,
                     audioWorks, requests, inputText>>
     ELSE /\ lastScannedIsbnRef' = isbn
          /\ cycles' = Append(cycles,
                IF audioWorks THEN NewCycle(isbn)
                ELSE [NewCycle(isbn) EXCEPT !.pc = "done",
                                            !.primaryCalls = 0])
          /\ UNCHANGED <<timers, uiVars, storeVars, audioWorks, requests, inputText>>

\* variant: the lock is assigned after the first await, not at admission
handleScanSuccess_lockAfterAwait(isbn) ==
  /\ isCameraOpen
  /\ IF Rejects(isbn)
     THEN UNCHANGED <<lastScannedIsbnRef, cycles, timers, uiVars, storeVars,
                     audioWorks, requests, inputText>>
     ELSE /\ cycles' = Append(cycles, NewCycle(isbn))
          /\ UNCHANGED <<lastScannedIsbnRef, timers, uiVars, storeVars,
                         audioWorks, requests, inputText>>

\* variant: a set lock rejects every decoded string, not only its own
handleScanSuccess_anyLock(isbn) ==
  /\ isCameraOpen
  /\ IF lastScannedIsbnRef # Null \/ ~MatchesIsbnPrefix(isbn)
     THEN UNCHANGED <<lastScannedIsbnRef, cycles, timers, uiVars, storeVars,
                     audioWorks, requests, inputText>>
     ELSE /\ lastScannedIsbnRef' = isbn
          /\ cycles' = Append(cycles, NewCycle(isbn))
          /\ UNCHANGED <<timers, uiVars, storeVars, audioWorks, requests, inputText>>

\* the decoder callback: handleScanSuccess(isbn) up to its first await
handleScanSuccess(isbn) ==
  /\ isCameraOpen
  /\ IF Rejects(isbn)
     THEN UNCHANGED <<lastScannedIsbnRef, cycles, timers, uiVars, storeVars,
                     audioWorks, requests, inputText>>
     ELSE /\ lastScannedIsbnRef' = isbn
          /\ cycles' = Append(cycles, NewCycle(isbn))
          /\ UNCHANGED <<timers, uiVars, storeVars, audioWorks, requests, inputText>>

\* variant: the catch block does not re-arm the lock
CatchError_noRearm(c, cy, message) ==
  /\ cycles' = [cycles EXCEPT ![c] =
                  [cy EXCEPT !.pc = "done",
                             !.caught = message,
                             !.alerts = Append(@, ErrorAlert(message))]]
  /\ UNCHANGED <<timers, scanMessage>>

\* variant: the alert of the catch block leaves out the error's message
CatchError_noMessage(c, cy, message) ==
  /\ cycles' = [cycles EXCEPT ![c] =
                  [cy EXCEPT !.pc = "done",
                             !.caught = message,
                             !.alerts = Append(@, ErrorAlert("")),
                             !.timersArmed = @ + 1]]
  /\ timers' = ArmTimer(timers, c, "catch")
  /\ UNCHANGED scanMessage

\* the catch block of handleScanSuccess
CatchError(c, cy, message) ==
  /\ cycles' = [cycles EXCEPT ![c] =
                  [cy EXCEPT !.pc = "done",
                            !.caught = message,
                            !.alerts = Append(@, ErrorAlert(message)),
                            !.timersArmed = @ + 1]]
  /\ timers' = ArmTimer(timers, c, "catch")
  /\ UNCHANGED scanMessage

\* what the primary lookup delivered, as the cycle's record of it
PrimaryKind(r) ==
  IF ~r.ok THEN "failed"
  ELSE IF Len(r.data) > 0 /\ IsObject(r.data[1]) /\ IsObject(r.data[1].summary)
       THEN "summary" ELSE "empty"

\* handleScanSuccess resumed with the outcome r of the primary lookup
handleScanSuccess_primary(c, r) ==
  /\ cycles[c].pc = "primary"
  /\ LET cy == [cycles[c] EXCEPT !.primaryResult = PrimaryKind(r)] IN
     IF ~r.ok
     THEN CatchError(c, cy, r.message)
     ELSE IF Len(r.data) > 0 /\ IsObject(r.data[1])
             /\ IsObject(r.data[1].summary)
     THEN /\ cycles' = [cycles EXCEPT ![c] =
                          CallAddBookToDB(cy, r.data[1].summary)]
          /\ UNCHANGED <<timers, scanMessage>>
     ELSE /\ cycles' = [cycles EXCEPT ![c] =
                          [cy EXCEPT !.pc = "secondary",
                                     !.secondaryCalls = @ + 1]]
          /\ UNCHANGED <<timers, scanMessage>>
  /\ UNCHANGED <<lastScannedIsbnRef, books, selectedCategory, isCameraOpen,
                 scannerCategory, storeVars, lastCall, audioWorks, requests, inputText>>

\* what the secondary lookup delivered, as the cycle's record of it
SecondaryKind(r) ==
  IF ~r.ok THEN "failed" ELSE IF Len(r.items) > 0 THEN "items" ELSE "empty"

\* variant: the not-found branch announces the warning but sets no timeout
handleScanSuccess_secondary_noTimer(c, r) ==
  /\ cycles[c].pc = "secondary"
  /\ LET cy == [cycles[c] EXCEPT !.secondaryResult = SecondaryKind(r)] IN
     IF ~r.ok
     THEN CatchError(c, cy, r.message)
     ELSE IF Len(r.items) > 0
     THEN /\ cycles' = [cycles EXCEPT ![c] =
                          CallAddBookToDB(
                            [cy EXCEPT !.info = r.items[1].volumeInfo,
                                       !.googleItems = r.items],
                            GoogleBookData(r.items[1].volumeInfo, cy.isbn))]
          /\ UNCHANGED <<timers, scanMessage>>
     ELSE /\ scanMessage' = NotFoundMsg
          /\ cycles' = [cycles EXCEPT ![c] =
                          [cy EXCEPT !.pc = "done",
                                     !.announced = Append(@, NotFoundMsg)]]
          /\ UNCHANGED timers
  /\ UNCHANGED <<lastScannedIsbnRef, books, selectedCategory, isCameraOpen,
                 scannerCategory, storeVars, lastCall, audioWorks, requests, inputText>>

\* variant: the draft is built from the last volume of the answer
handleScanSuccess_secondary_lastVolume(c, r) ==
  /\ cycles[c].pc = "secondary"
  /\ LET cy == [cycles[c] EXCEPT !.secondaryResult = SecondaryKind(r)] IN
     IF ~r.ok
     THEN CatchError(c, cy, r.message)
     ELSE IF Len(r.items) > 0
     THEN /\ cycles' = [cycles EXCEPT ![c] =
                          CallAddBookToDB(
                            [cy EXCEPT !.info = r.items[Len(r.items)].volumeInfo,
                                       !.googleItems = r.items],
                            GoogleBookData(r.items[Len(r.items)].volumeInfo,
                                           cy.isbn))]
          /\ UNCHANGED <<timers, scanMessage>>
     ELSE /\ scanMessage' = NotFoundMsg
          /\ cycles' = [cycles EXCEPT ![c] =
                          [cy EXCEPT !.pc = "done",
                                     !.announced = Append(@, NotFoundMsg),
                                     !.timersArmed = @ + 1]]
          /\ timers' = ArmTimer(timers, c, "notfound")
  /\ UNCHANGED <<lastScannedIsbnRef, books, selectedCategory, isCameraOpen,
                 scannerCategory, storeVars, lastCall, audioWorks, requests, inputText>>

\* handleScanSuccess resumed with the outcome r of the secondary lookup
handleScanSuccess_secondary(c, r) ==
  /\ cycles[c].pc = "secondary"
  /\ LET cy == [cycles[c] EXCEPT !.secondaryResult = SecondaryKind(r)] IN
     IF ~r.ok
     THEN CatchError(c, cy, r.message)
     ELSE IF Len(r.items) > 0
     THEN /\ cycles' = [cycles EXCEPT ![c] =
                          CallAddBookToDB(
                            [cy EXCEPT !.info = r.items[1].volumeInfo,
                                       !.googleItems = r.items],
                            GoogleBookData(r.items[1].volumeInfo, cy.isbn))]
          /\ UNCHANGED <<timers, scanMessage>>
     ELSE /\ scanMessage' = NotFoundMsg
          /\ cycles' = [cycles EXCEPT ![c] =
                          [cy EXCEPT !.pc = "done",
                                     !.announced = Append(@, NotFoundMsg),
                                     !.timersArmed = @ + 1]]
          /\ timers' = ArmTimer(timers, c, "notfound")
  /\ UNCHANGED <<lastScannedIsbnRef, books, selectedCategory, isCameraOpen,
                 scannerCategory, storeVars, lastCall, audioWorks, requests, inputText>>

\* variant: the duplicate branch lacks its return and goes on to the insert
addBookToDB_afterQuery_noReturn(c) ==
  /\ cycles[c].pc = "dupResp"
  /\ LET cy == cycles[c]
         existingBooks == cy.resp IN
     IF IsObject(existingBooks) /\ Len(existingBooks.items) > 0
     THEN /\ scanMessage' = DuplicateMsg(cy.insertData.title)
          /\ cycles' = [cycles EXCEPT ![c] =
               [cy EXCEPT !.announced = Append(@, DuplicateMsg(cy.insertData.title)),
                          !.beeps = @ + 1,
                          !.beepFailures = @ + BeepFailures,
                          !.timersArmed = @ + 1,
                          !.dupFound = TRUE,
                          !.resp = JSUndefined,
                          !.pc = "insSent",
                          !.inserts = @ + 1]]
          /\ timers' = ArmTimer(timers, c, "duplicate")
     ELSE /\ cycles' = [cycles EXCEPT ![c] =
               [cy EXCEPT !.pc = "insSent", !.inserts = @ + 1,
                          !.resp = JSUndefined]]
          /\ UNCHANGED <<timers, scanMessage>>
  /\ UNCHANGED <<lastScannedIsbnRef, books, selectedCategory, isCameraOpen,
                 scannerCategory, storeVars, lastCall, audioWorks, requests, inputText>>

\* addBookToDB resumed with the result of its duplicate query; when it
\* returns, handleScanSuccess goes on to showSuccessMessage and returns
addBookToDB_afterQuery(c) ==
  /\ cycles[c].pc = "dupResp"
  /\ LET cy == cycles[c]
         existingBooks == cy.resp IN
     IF IsObject(existingBooks) /\ Len(existingBooks.items) > 0
     THEN /\ scanMessage' = SuccessMsg(cy.title)
          /\ cycles' = [cycles EXCEPT ![c] =
               ShowSuccessAndReturn(
                 [cy EXCEPT !.announced = Append(@, DuplicateMsg(cy.insertData.title)),
                            !.beeps = @ + 1,
                          !.beepFailures = @ + BeepFailures,
                            !.timersArmed = @ + 1,
                            !.dupFound = TRUE,
                            !.resp = JSUndefined],
                 cy.title)]
          /\ timers' = ArmTimer(ArmTimer(timers, c, "duplicate"), c, "success")
     ELSE /\ cycles' = [cycles EXCEPT ![c] =
               [cy EXCEPT !.pc = "insSent", !.inserts = @ + 1,
                          !.resp = JSUndefined]]
          /\ UNCHANGED <<timers, scanMessage>>
  /\ UNCHANGED <<lastScannedIsbnRef, books, selectedCategory, isCameraOpen,
                 scannerCategory, storeVars, lastCall, audioWorks, requests, inputText>>

\* variant: a successful insert also puts the payload on top of the list
addBookToDB_afterInsert_optimistic(c) ==
  /\ cycles[c].pc = "insResp"
  /\ LET cy == cycles[c]
         error == cy.resp IN
     /\ IF IsObject(error)
        THEN /\ cycles' = [cycles EXCEPT ![c] =
                  ShowSuccessAndReturn(
                    [cy EXCEPT !.alerts = Append(@, SaveErrorAlert(error.message)),
                               !.resp = JSUndefined],
                    cy.title)]
             /\ UNCHANGED <<fetchSent, books>>
        ELSE /\ cycles' = [cycles EXCEPT ![c] =
                  ShowSuccessAndReturn(
                    [cy EXCEPT !.resp = JSUndefined, !.fetches = @ + 1],
                    cy.title)]
             /\ fetchSent' = fetchSent + 1
             /\ books' = <<cy.insertData>> \o books
     /\ scanMessage' = SuccessMsg(cy.title)
     /\ timers' = ArmTimer(timers, c, "success")
  /\ UNCHANGED <<lastScannedIsbnRef, selectedCategory, isCameraOpen,
                 scannerCategory, dbBooks, fetchResponses, lastCall, audioWorks, requests, inputText>>

\* addBookToDB resumed with the result of its insert; when it returns,
\* handleScanSuccess goes on to showSuccessMessage and returns
addBookToDB_afterInsert(c) ==
  /\ cycles[c].pc = "insResp"
  /\ LET cy == cycles[c]
         error == cy.resp IN
     /\ IF IsObject(error)
        THEN /\ cycles' = [cycles EXCEPT ![c] =
                  ShowSuccessAndReturn(
                    [cy EXCEPT !.alerts = Append(@, SaveErrorAlert(error.message)),
                               !.resp = JSUndefined],
                    cy.title)]
             /\ UNCHANGED fetchSent
        ELSE /\ cycles' = [cycles EXCEPT ![c] =
                  ShowSuccessAndReturn(
                    [cy EXCEPT !.resp = JSUndefined, !.fetches = @ + 1],
                    cy.title)]
             /\ fetchSent' = fetchSent + 1
     /\ scanMessage' = SuccessMsg(cy.title)
     /\ timers' = ArmTimer(timers, c, "success")
  /\ UNCHANGED <<lastScannedIsbnRef, books, selectedCategory, isCameraOpen,
                 scannerCategory, dbBooks, fetchResponses, lastCall, audioWorks, requests, inputText>>

----------------------------------------------------------------------------
(* The record store (external collaborator): it serves each request at     *)
(* some moment between the request and the delivery of the response         *)

RECURSIVE Reverse(_)
Reverse(q) == IF q = <<>> THEN <<>> ELSE Append(Reverse(Tail(q)), Head(q))

RECURSIVE SelectIds(_, _)
SelectIds(rows, isbn) ==
  IF rows = <<>> THEN <<>>
  ELSE IF Head(rows).isbn = isbn
       THEN <<Head(rows).id>> \o SelectIds(Tail(rows), isbn)
       ELSE SelectIds(Tail(rows), isbn)

\* from('books').select('id').eq('isbn', isbn), served or failed
StoreSelectIsbn(c, ok) ==
  /\ cycles[c].pc = "dupSent"
  /\ cycles' = [cycles EXCEPT ![c] =
        [@ EXCEPT !.pc = "dupResp",
                  !.resp = IF ok
                           THEN [type |-> "array",
                                 items |-> SelectIds(dbBooks,
                                            cycles[c].insertData.isbn)]
                           ELSE JSNull]]
  /\ UNCHANGED <<lastScannedIsbnRef, uiVars, storeVars, timers, lastCall, audioWorks, requests, inputText>>

\* from('books').insert([insertData]), served or failed
StoreInsert(c, ok) ==
  /\ cycles[c].pc = "insSent"
  /\ IF ok
     THEN /\ dbBooks' = Append(dbBooks,
                 [id |-> Len(dbBooks) + 1] @@ cycles[c].insertData)
          /\ cycles' = [cycles EXCEPT ![c] =
                 [@ EXCEPT !.pc = "insResp", !.resp = JSNull,
                           !.storeResult = "ok",
                           !.rowId = Len(dbBooks) + 1]]
     ELSE /\ cycles' = [cycles EXCEPT ![c] =
                 [@ EXCEPT !.pc = "insResp",
                           !.storeResult = "error",
                           !.resp = [type |-> "object",
                                     message |-> StoreErrorMessage]]]
          /\ UNCHANGED dbBooks
  /\ UNCHANGED <<lastScannedIsbnRef, uiVars, fetchSent, fetchResponses,
                 timers, lastCall, audioWorks, requests, inputText>>

\* a deleted row keeps its place in dbBooks, so that the store never gives
\* the id of a deleted row to a new one
Deleted == "<deleted>"

IsLive(row) == row.status # Deleted

\* from('books').select('*').order('created_at', descending), served or failed
StoreSelectAll(ok) ==
  /\ fetchSent > 0
  /\ fetchSent' = fetchSent - 1
  /\ fetchResponses' = fetchResponses (+)
        SetToBag({IF ok THEN [type |-> "array",
                              items |-> Reverse(SelectSeq(dbBooks, IsLive))]
                        ELSE JSNull})
  /\ UNCHANGED <<lastScannedIsbnRef, uiVars, dbBooks, cycles, timers, lastCall, audioWorks, requests, inputText>>

\* the row the store makes of the payload of a manual add: the columns the
\* payload does not give are null
StoreRow(id, payload) ==
  [id |-> id, status |-> payload.status, category |-> payload.category,
   title |-> payload.title, author |-> Null, publisher |-> Null,
   cover_url |-> Null, isbn |-> Null]

\* the insert, update or delete of request q, served or failed
StoreServe(q, ok) ==
  /\ requests[q].pc = "sent"
  /\ requests' = [requests EXCEPT ![q] =
                    [@ EXCEPT !.pc = "resp", !.error = ~ok]]
  /\ LET rq == requests[q] IN
     dbBooks' =
       IF ~ok THEN dbBooks
       ELSE IF rq.op = "insert"
       THEN Append(dbBooks, StoreRow(Len(dbBooks) + 1, rq.payload))
       ELSE [i \in DOMAIN dbBooks |->
               IF dbBooks[i].id = rq.id /\ IsLive(dbBooks[i])
               THEN [dbBooks[i] EXCEPT !.status =
                       IF rq.op = "update" THEN rq.status ELSE Deleted]
               ELSE dbBooks[i]]
  /\ UNCHANGED <<lastScannedIsbnRef, uiVars, fetchSent, fetchResponses,
                 cycles, timers, lastCall, audioWorks, inputText>>

----------------------------------------------------------------------------
(* The rest of the component *)

\* fetchBooks resumed with its response
fetchBooks_done(data) ==
  /\ BagIn(data, fetchResponses)
  /\ fetchResponses' = fetchResponses (-) SetToBag({data})
  /\ books' = IF IsObject(data) THEN data.items ELSE books
  /\ UNCHANGED <<lastScannedIsbnRef, scanMessage, selectedCategory,
                 isCameraOpen, scannerCategory, dbBooks, cycles, timers,
                 fetchSent, lastCall, audioWorks, requests, inputText>>

\* the timeout callback of resetScanLock: timeouts of one delay run in the
\* order they were set
resetScanLock_timeout ==
  /\ timers # <<>>
  /\ Head(timers).remaining = 0
  /\ scanMessage' = ""
  /\ lastScannedIsbnRef' = Null
  /\ timers' = Tail(timers)
  /\ UNCHANGED <<books, selectedCategory, isCameraOpen, scannerCategory,
                 storeVars, cycles, lastCall, audioWorks, requests, inputText>>

Min(a, b) == IF a <= b THEN a ELSE b

\* the time that passes in one clock step: never beyond the next timeout
Elapse ==
  IF timers = <<>> THEN TickMs ELSE Min(TickMs, Head(timers).remaining)

\* time passes; a timeout that is due runs before more time passes
Tick ==
  /\ timers # <<>> => Head(timers).remaining > 0
  /\ timers' = [i \in DOMAIN timers |->
                  [timers[i] EXCEPT !.remaining = @ - Elapse]]
  /\ UNCHANGED <<lastScannedIsbnRef, uiVars, storeVars, cycles, lastCall, audioWorks, requests, inputText>>

\* variant: closing the camera abandons the cycles in flight
toggleCamera_abortsCycles ==
  /\ isCameraOpen' = ~isCameraOpen
  /\ scannerCategory' = IF isCameraOpen THEN scannerCategory
                        ELSE selectedCategory
  /\ cycles' = IF isCameraOpen
               THEN [c \in DOMAIN cycles |-> [cycles[c] EXCEPT !.pc = "done"]]
               ELSE cycles
  /\ UNCHANGED <<lastScannedIsbnRef, scanMessage, books, selectedCategory,
                 storeVars, timers, lastCall, audioWorks, requests, inputText>>

\* variant: closing the camera also clears the lock
toggleCamera_clearsLock ==
  /\ isCameraOpen' = ~isCameraOpen
  /\ scannerCategory' = IF isCameraOpen THEN scannerCategory
                        ELSE selectedCategory
  /\ lastScannedIsbnRef' = IF isCameraOpen THEN Null ELSE lastScannedIsbnRef
  /\ UNCHANGED <<scanMessage, books, selectedCategory,
                 storeVars, cycles, timers, lastCall, audioWorks, requests, inputText>>

\* the camera button: mounting the scanner hands it the handleScanSuccess of
\* the current render, which the memoised scanner never replaces
toggleCamera ==
  /\ isCameraOpen' = ~isCameraOpen
  /\ scannerCategory' = IF isCameraOpen THEN scannerCategory
                        ELSE selectedCategory
  /\ UNCHANGED <<lastScannedIsbnRef, scanMessage, books, selectedCategory,
                 storeVars, cycles, timers, lastCall, audioWorks, requests, inputText>>

\* the category pull-down
setSelectedCategory(cat) ==
  /\ cat # selectedCategory
  /\ selectedCategory' = cat
  /\ UNCHANGED <<lastScannedIsbnRef, scanMessage, books, isCameraOpen,
                 scannerCategory, storeVars, cycles, timers, lastCall, audioWorks, requests, inputText>>

\* a store call of a handler other than the scan, right after its request
NewRequest(op, id, status, payload) ==
  [op |-> op, pc |-> "sent", id |-> id, status |-> status,
   payload |-> payload, error |-> FALSE, alert |-> Null]

\* typing into the manual title field
setInputText(text) ==
  /\ inputText' = text
  /\ UNCHANGED <<lastScannedIsbnRef, uiVars, storeVars, cycles, timers,
                 lastCall, audioWorks, requests>>

\* variant: the add button lacks the early return for an empty field
handleAddBook_noEmptyCheck ==
  /\ requests' = Append(requests,
         NewRequest("insert", 0, Null,
           [status |-> "Unread",
            category |-> IF selectedCategory = "" THEN Null
                         ELSE selectedCategory,
            title |-> inputText]))
  /\ inputText' = ""
  /\ UNCHANGED <<lastScannedIsbnRef, uiVars, storeVars, cycles, timers,
                 lastCall, audioWorks>>

\* the add button of the manual title field: addBookToDB(inputText) up to
\* its insert (a title has no isbn, so there is no duplicate query), then
\* setInputText("")
handleAddBook ==
  /\ IF inputText = ""
     THEN UNCHANGED <<requests, inputText>>
     ELSE /\ requests' = Append(requests,
                 NewRequest("insert", 0, Null,
                   [status |-> "Unread",
                    category |-> IF selectedCategory = "" THEN Null
                                 ELSE selectedCategory,
                    title |-> inputText]))
          /\ inputText' = ""
  /\ UNCHANGED <<lastScannedIsbnRef, uiVars, storeVars, cycles, timers,
                 lastCall, audioWorks>>

\* addBookToDB(inputText) resumed with the result of its insert
addBookToDB_afterManualInsert(q) ==
  /\ requests[q].op = "insert" /\ requests[q].pc = "resp"
  /\ IF requests[q].error
     THEN /\ requests' = [requests EXCEPT ![q] =
               [@ EXCEPT !.pc = "done",
                         !.alert = SaveErrorAlert(StoreErrorMessage)]]
          /\ UNCHANGED fetchSent
     ELSE /\ requests' = [requests EXCEPT ![q].pc = "done"]
          /\ fetchSent' = fetchSent + 1
  /\ UNCHANGED <<lastScannedIsbnRef, uiVars, dbBooks, fetchResponses, cycles,
                 timers, lastCall, audioWorks, inputText>>

\* the delete button of a listed book, up to its await
handleDeleteBook(targetId) ==
  /\ \E i \in DOMAIN books : books[i].id = targetId
  /\ requests' = Append(requests, NewRequest("delete", targetId, Null, JSNull))
  /\ UNCHANGED <<lastScannedIsbnRef, uiVars, storeVars, cycles, timers,
                 lastCall, audioWorks, inputText>>

\* handleDeleteBook resumed with the result of its delete
handleDeleteBook_afterDelete(q) ==
  /\ requests[q].op = "delete" /\ requests[q].pc = "resp"
  /\ requests' = [requests EXCEPT ![q].pc = "done"]
  /\ fetchSent' = IF requests[q].error THEN fetchSent ELSE fetchSent + 1
  /\ UNCHANGED <<lastScannedIsbnRef, uiVars, dbBooks, fetchResponses, cycles,
                 timers, lastCall, audioWorks, inputText>>

\* the status pull-down of a listed book, up to its await: the list is
\* changed at once
handleStatusChange(id, newStatus) ==
  /\ \E i \in DOMAIN books : books[i].id = id
  /\ books' = [i \in DOMAIN books |->
                 IF books[i].id = id
                 THEN [books[i] EXCEPT !.status = newStatus] ELSE books[i]]
  /\ requests' = Append(requests, NewRequest("update", id, newStatus, JSNull))
  /\ UNCHANGED <<lastScannedIsbnRef, scanMessage, selectedCategory,
                 isCameraOpen, scannerCategory, storeVars, cycles, timers,
                 lastCall, audioWorks, inputText>>

\* handleStatusChange resumed after its update, whatever its result
handleStatusChange_afterUpdate(q) ==
  /\ requests[q].op = "update" /\ requests[q].pc = "resp"
  /\ requests' = [requests EXCEPT ![q].pc = "done"]
  /\ fetchSent' = fetchSent + 1
  /\ UNCHANGED <<lastScannedIsbnRef, uiVars, dbBooks, fetchResponses, cycles,
                 timers, lastCall, audioWorks, inputText>>

----------------------------------------------------------------------------
(* Specifications *)

\* a decoder callback, within the number n of cycles explored
Decode(s, n) ==
  /\ Rejects(s) \/ Len(cycles) < n
  /\ handleScanSuccess(s)
  /\ UNCHANGED lastCall

\* the scan pipeline with the camera opened once and left open
Next ==
  \/ ~isCameraOpen /\ toggleCamera
  \/ \E s \in RawScans : Decode(s, MaxCycles)
  \/ \E c \in CycleIds : \E r \in PrimaryResponses(cycles[c].isbn) :
        handleScanSuccess_primary(c, r)
  \/ \E c \in CycleIds : \E r \in SecondaryResponses :
        handleScanSuccess_secondary(c, r)
  \/ \E c \in CycleIds : \E ok \in BOOLEAN : StoreSelectIsbn(c, ok)
  \/ \E c \in CycleIds : addBookToDB_afterQuery(c)
  \/ \E c \in CycleIds : \E ok \in BOOLEAN : StoreInsert(c, ok)
  \/ \E c \in CycleIds : addBookToDB_afterInsert(c)
  \/ resetScanLock_timeout
  \/ Tick

Spec == Init /\ [][Next]_vars

\* the same with room for three interleaved cycles
NextRace ==
  \/ ~isCameraOpen /\ toggleCamera
  \/ \E s \in RawScans : Decode(s, RaceCycles)
  \/ \E c \in CycleIds : \E r \in PrimaryResponses(cycles[c].isbn) :
        handleScanSuccess_primary(c, r)
  \/ \E c \in CycleIds : \E r \in SecondaryResponses :
        handleScanSuccess_secondary(c, r)
  \/ \E c \in CycleIds : \E ok \in BOOLEAN : StoreSelectIsbn(c, ok)
  \/ \E c \in CycleIds : addBookToDB_afterQuery(c)
  \/ \E c \in CycleIds : \E ok \in BOOLEAN : StoreInsert(c, ok)
  \/ \E c \in CycleIds : addBookToDB_afterInsert(c)
  \/ resetScanLock_timeout
  \/ Tick

SpecRace == Init /\ [][NextRace]_vars

RECURSIVE TimersArmedUpTo(_)
TimersArmedUpTo(n) ==
  IF n = 0 THEN 0 ELSE cycles[n].timersArmed + TimersArmedUpTo(n - 1)

\* the number of lock-release timeouts that have run so far: those armed
\* less those pending
TimeoutsRun == TimersArmedUpTo(Len(cycles)) - Len(timers)

\* the pipeline with every decoder callback recorded by the observer
Observe(s, n) ==
  /\ Rejects(s) \/ Len(cycles) < n
  /\ handleScanSuccess(s)
  /\ lastCall' = [arg |-> s,
                  admitted |-> MatchesIsbnPrefix(s) /\ s # lastScannedIsbnRef,
                  flip |-> ~lastCall.flip,
                  timeouts |-> TimeoutsRun]

NextGate ==
  \/ ~isCameraOpen /\ toggleCamera
  \/ \E s \in RawScans : Observe(s, GateCycles)
  \/ \E c \in CycleIds : \E r \in PrimaryResponses(cycles[c].isbn) :
        handleScanSuccess_primary(c, r)
  \/ \E c \in CycleIds : \E r \in SecondaryResponses :
        handleScanSuccess_secondary(c, r)
  \/ \E c \in CycleIds : \E ok \in BOOLEAN : StoreSelectIsbn(c, ok)
  \/ \E c \in CycleIds : addBookToDB_afterQuery(c)
  \/ \E c \in CycleIds : \E ok \in BOOLEAN : StoreInsert(c, ok)
  \/ \E c \in CycleIds : addBookToDB_afterInsert(c)
  \/ resetScanLock_timeout
  \/ Tick

SpecGate == Init /\ [][NextGate]_vars

\* the observed pipeline with room for a second admission
NextAtomic ==
  \/ ~isCameraOpen /\ toggleCamera
  \/ \E s \in RawScans : Observe(s, MaxCycles)
  \/ \E c \in CycleIds : \E r \in PrimaryResponses(cycles[c].isbn) :
        handleScanSuccess_primary(c, r)
  \/ \E c \in CycleIds : \E r \in SecondaryResponses :
        handleScanSuccess_secondary(c, r)
  \/ \E c \in CycleIds : \E ok \in BOOLEAN : StoreSelectIsbn(c, ok)
  \/ \E c \in CycleIds : addBookToDB_afterQuery(c)
  \/ \E c \in CycleIds : \E ok \in BOOLEAN : StoreInsert(c, ok)
  \/ \E c \in CycleIds : addBookToDB_afterInsert(c)
  \/ resetScanLock_timeout
  \/ Tick

SpecAtomic == Init /\ [][NextAtomic]_vars

\* the pipeline fed with the full range of decoded strings and provider
\* answers
NextInputs ==
  \/ ~isCameraOpen /\ toggleCamera
  \/ \E s \in LooseScans : Decode(s, InputCycles)
  \/ \E c \in CycleIds : \E r \in PrimaryResponsesAll(cycles[c].isbn) :
        handleScanSuccess_primary(c, r)
  \/ \E c \in CycleIds : \E r \in SecondaryResponsesAll :
        handleScanSuccess_secondary(c, r)
  \/ \E c \in CycleIds : \E ok \in BOOLEAN : StoreSelectIsbn(c, ok)
  \/ \E c \in CycleIds : addBookToDB_afterQuery(c)
  \/ \E c \in CycleIds : \E ok \in BOOLEAN : StoreInsert(c, ok)
  \/ \E c \in CycleIds : addBookToDB_afterInsert(c)
  \/ resetScanLock_timeout
  \/ Tick

SpecInputs == Init /\ [][NextInputs]_vars

\* the pipeline with the camera button and the category pull-down in use
NextCategory ==
  \/ toggleCamera
  \/ \E cat \in CategoryOptions : setSelectedCategory(cat)
  \/ \E s \in RawScans : Decode(s, CategoryCycles)
  \/ \E c \in CycleIds : \E r \in PrimaryResponses(cycles[c].isbn) :
        handleScanSuccess_primary(c, r)
  \/ \E c \in CycleIds : \E r \in SecondaryResponses :
        handleScanSuccess_secondary(c, r)
  \/ \E c \in CycleIds : \E ok \in BOOLEAN : StoreSelectIsbn(c, ok)
  \/ \E c \in CycleIds : addBookToDB_afterQuery(c)
  \/ \E c \in CycleIds : \E ok \in BOOLEAN : StoreInsert(c, ok)
  \/ \E c \in CycleIds : addBookToDB_afterInsert(c)
  \/ resetScanLock_timeout
  \/ Tick

SpecCategory == Init /\ [][NextCategory]_vars

\* the pipeline together with the fetches of the list: the one of the mount
\* and the ones after inserts
NextList ==
  \/ ~isCameraOpen /\ toggleCamera
  \/ \E s \in RawScans : Decode(s, ListCycles)
  \/ \E c \in CycleIds : \E r \in PrimaryResponses(cycles[c].isbn) :
        handleScanSuccess_primary(c, r)
  \/ \E c \in CycleIds : \E r \in SecondaryResponses :
        handleScanSuccess_secondary(c, r)
  \/ \E c \in CycleIds : \E ok \in BOOLEAN : StoreSelectIsbn(c, ok)
  \/ \E c \in CycleIds : addBookToDB_afterQuery(c)
  \/ \E c \in CycleIds : \E ok \in BOOLEAN : StoreInsert(c, ok)
  \/ \E c \in CycleIds : addBookToDB_afterInsert(c)
  \/ \E ok \in BOOLEAN : StoreSelectAll(ok)
  \/ \E data \in BagToSet(fetchResponses) : fetchBooks_done(data)
  \/ resetScanLock_timeout
  \/ Tick

SpecList == Init /\ [][NextList]_vars

\* the whole component: the scan pipeline, the list, the pull-down, the camera
\* button, the manual add, the delete and the status edit
NextApp ==
  \/ toggleCamera
  \/ \E cat \in CategoryOptions : setSelectedCategory(cat)
  \/ \E s \in RawScans : Decode(s, AppCycles)
  \/ \E c \in CycleIds : \E r \in PrimaryResponses(cycles[c].isbn) :
        handleScanSuccess_primary(c, r)
  \/ \E c \in CycleIds : \E r \in SecondaryResponses :
        handleScanSuccess_secondary(c, r)
  \/ \E c \in CycleIds : \E ok \in BOOLEAN : StoreSelectIsbn(c, ok)
  \/ \E c \in CycleIds : addBookToDB_afterQuery(c)
  \/ \E c \in CycleIds : \E ok \in BOOLEAN : StoreInsert(c, ok)
  \/ \E c \in CycleIds : addBookToDB_afterInsert(c)
  \/ \E ok \in BOOLEAN : StoreSelectAll(ok)
  \/ \E data \in BagToSet(fetchResponses) : fetchBooks_done(data)
  \/ \E t \in ManualTitles : setInputText(t)
  \/ (inputText = "" \/ Len(requests) < MaxRequests) /\ handleAddBook
  \/ \E q \in DOMAIN requests : addBookToDB_afterManualInsert(q)
  \/ \E i \in DOMAIN books :
        Len(requests) < MaxRequests /\ handleDeleteBook(books[i].id)
  \/ \E q \in DOMAIN requests : handleDeleteBook_afterDelete(q)
  \/ \E i \in DOMAIN books : \E st \in StatusOptions :
        Len(requests) < MaxRequests /\ handleStatusChange(books[i].id, st)
  \/ \E q \in DOMAIN requests : handleStatusChange_afterUpdate(q)
  \/ \E q \in DOMAIN requests : \E ok \in BOOLEAN : StoreServe(q, ok)
  \/ resetScanLock_timeout
  \/ Tick

SpecApp == Init /\ [][NextApp]_vars

\* the step cycle c takes when the call it awaits returns or throws
Resume(c) ==
  /\ c \in CycleIds
  /\ \/ \E r \in PrimaryResponses(cycles[c].isbn) :
          handleScanSuccess_primary(c, r)
     \/ \E r \in SecondaryResponses : handleScanSuccess_secondary(c, r)
     \/ \E ok \in BOOLEAN : StoreSelectIsbn(c, ok)
     \/ addBookToDB_afterQuery(c)
     \/ \E ok \in BOOLEAN : StoreInsert(c, ok)
     \/ addBookToDB_afterInsert(c)

\* every provider and store call returns or throws, time passes, and a timeout
\* that is due runs
FairSpec ==
  /\ Spec
  /\ \A c \in 1 .. MaxCycles : WF_vars(Resume(c))
  /\ WF_vars(resetScanLock_timeout)
  /\ WF_vars(Tick)

\* the same with every pending call answered, time passing and due timeouts
\* run, whatever is done with the camera button and the pull-down
FairSpecCategory ==
  /\ SpecCategory
  /\ \A c \in 1 .. CategoryCycles : WF_vars(Resume(c))
  /\ WF_vars(resetScanLock_timeout)
  /\ WF_vars(Tick)

\* the pipeline in a browser where the tone may fail to be produced
SpecTone == InitTone /\ [][Next]_vars

FairSpecTone ==
  /\ SpecTone
  /\ \A c \in 1 .. MaxCycles : WF_vars(Resume(c))
  /\ WF_vars(resetScanLock_timeout)
  /\ WF_vars(Tick)

----------------------------------------------------------------------------
(* Properties of the pipeline *)

Last(q) == q[Len(q)]

InSeq(x, q) == \E i \in DOMAIN q : q[i] = x

\* cycle c has reached a terminal outcome: handleScanSuccess has returned
Done(c) == cycles[c].pc = "done"

PendingTimers(c) == {i \in DOMAIN timers : timers[i].cycle = c}

\* a re-arm timer armed by cycle c has fired
Released(c) ==
  Done(c) /\ Cardinality(PendingTimers(c)) < cycles[c].timersArmed

\* C1: once a cycle for ISBN X has been admitted, no further decode of X is
\* admitted before a re-arm timer armed by that cycle has fired, whatever
\* happens in between
C1_RepeatSuppression ==
  \A c1, c2 \in CycleIds :
    (c1 < c2 /\ cycles[c1].isbn = cycles[c2].isbn) => Released(c1)

\* C2: no two records of the store have the same non-empty isbn
C2_IsbnUnique ==
  \A i, j \in DOMAIN dbBooks :
    (i # j /\ Truthy(dbBooks[i].isbn)) => dbBooks[i].isbn # dbBooks[j].isbn

C4_DuplicateOutcome ==
  \A c \in CycleIds :
    (cycles[c].dupFound /\ Done(c)) =>
      Last(cycles[c].announced) = DuplicateMsg(cycles[c].title)

\* C5: a cycle whose insert failed in the store shows the backend message,
\* inserts once, and announces no success
C5_StoreFailureOutcome ==
  \A c \in CycleIds :
    (cycles[c].storeResult = "error" /\ Done(c)) =>
      /\ InSeq(SaveErrorAlert(StoreErrorMessage), cycles[c].alerts)
      /\ cycles[c].inserts = 1
      /\ ~InSeq(SuccessMsg(cycles[c].title), cycles[c].announced)

\* C6: every cycle at its terminal outcome has armed a lock release of at most
\* the cool-down, and a set lock is always eventually cleared
C6_NoPermanentLock ==
  /\ [](\A c \in CycleIds : Done(c) => cycles[c].timersArmed >= 1)
  /\ [](\A i \in DOMAIN timers : timers[i].remaining <= COOLDOWN)
  /\ (lastScannedIsbnRef # Null) ~> (lastScannedIsbnRef = Null)

C6_Witness ==
  \E c \in CycleIds :
    /\ Done(c)
    /\ cycles[c].alerts # <<>>
    /\ lastScannedIsbnRef = cycles[c].isbn
    /\ PendingTimers(c) # {}

\* C7: a decoder callback with a string that misses the prefix policy or
\* equals the lock changes nothing: lock, message, list, store, cycles (tone,
\* alerts, provider requests) and timers stay as they are
C7_SilentRejection ==
  [][(lastCall'.flip # lastCall.flip /\ ~lastCall'.admitted) =>
       UNCHANGED <<lastScannedIsbnRef, scanMessage, books, dbBooks, cycles,
                   timers, fetchSent, fetchResponses>>]_vars

C7_Witness ==
  /\ ~lastCall.admitted
  /\ lastCall.arg \in RawScans
  /\ lastCall.arg = lastScannedIsbnRef

\* C8: a cycle whose primary lookup returned a summary never queries the
\* secondary provider; the secondary provider is queried (once) only after the
\* primary response came without a summary
C8_FallbackOrdering ==
  \A c \in CycleIds :
    /\ cycles[c].primaryResult = "summary" => cycles[c].secondaryCalls = 0
    /\ cycles[c].secondaryCalls > 0 =>
         (cycles[c].primaryResult = "empty" /\ cycles[c].secondaryCalls = 1)

C8_Witness ==
  \E c1, c2 \in CycleIds :
    /\ cycles[c1].primaryResult = "summary" /\ Done(c1)
    /\ cycles[c2].secondaryCalls = 1

\* C9: after the latest cycle announced success for the record it inserted
\* from a primary summary, the lock keeps that cycle's ISBN for as long as
\* less than the cool-down has passed since the announcement
C9_ReleaseAfterCooldown ==
  \A c \in CycleIds :
    ( /\ c = Len(cycles)
      /\ Done(c)
      /\ cycles[c].primaryResult = "summary"
      /\ cycles[c].insertData.isbn = cycles[c].isbn
      /\ cycles[c].storeResult = "ok"
      /\ \E i \in PendingTimers(c) :
           timers[i].src = "success" /\ timers[i].remaining > 0 )
    => lastScannedIsbnRef = cycles[c].isbn

\* C10: the record a cycle inserted carries the ISBN admitted for that cycle
C10_RecordIsbn ==
  \A c \in CycleIds :
    cycles[c].rowId > 0 => dbBooks[cycles[c].rowId].isbn = cycles[c].isbn

\* C11: a cycle whose primary lookup came without a summary and whose
\* secondary lookup came without items is at its terminal outcome with no
\* duplicate query and no insert call made and no record written; it announced
\* the not-found warning and nothing else, and it armed one re-arm timer, of
\* the cool-down
C11_EndToEndNotFound ==
  \A c \in CycleIds :
    (cycles[c].primaryResult = "empty" /\ cycles[c].secondaryResult = "empty")
    => /\ Done(c)
       /\ cycles[c].dupQueries = 0
       /\ cycles[c].inserts = 0
       /\ cycles[c].storeResult = "none" /\ cycles[c].rowId = 0
       /\ cycles[c].insertData = JSUndefined
       /\ cycles[c].announced = <<NotFoundMsg>>
       /\ cycles[c].alerts = <<>>
       /\ cycles[c].timersArmed = 1
       /\ \A i \in PendingTimers(c) :
            timers[i].src = "notfound" /\ timers[i].remaining <= COOLDOWN

C11_Witness ==
  \E c \in CycleIds :
    /\ cycles[c].isbn = ISBN_B
    /\ cycles[c].primaryResult = "empty"
    /\ cycles[c].secondaryResult = "empty"
    /\ Released(c)
    /\ lastScannedIsbnRef = Null
    /\ dbBooks = <<>>

\* C12: a cycle in which the primary or the secondary lookup failed is at its
\* terminal outcome; it alerted the error with the message of what was thrown
\* and announced nothing else, made no duplicate query and no insert call,
\* queried no provider twice (and not the secondary one after a primary
\* failure), and armed one re-arm timer, of the cool-down
C12_ProviderFailure ==
  \A c \in CycleIds :
    (cycles[c].primaryResult = "failed" \/ cycles[c].secondaryResult = "failed")
    => /\ Done(c)
       /\ cycles[c].caught \in FailureMessages
       /\ cycles[c].alerts = <<ErrorAlert(cycles[c].caught)>>
       /\ cycles[c].announced = <<>>
       /\ cycles[c].dupQueries = 0
       /\ cycles[c].inserts = 0
       /\ cycles[c].storeResult = "none" /\ cycles[c].rowId = 0
       /\ cycles[c].primaryCalls = 1
       /\ cycles[c].secondaryCalls =
            (IF cycles[c].primaryResult = "failed" THEN 0 ELSE 1)
       /\ cycles[c].timersArmed = 1
       /\ \A i \in PendingTimers(c) :
            timers[i].src = "catch" /\ timers[i].remaining <= COOLDOWN

C12_Witness ==
  \E c \in CycleIds :
    /\ cycles[c].secondaryResult = "failed"
    /\ cycles[c].caught = "Unexpected end of JSON input"
    /\ Released(c)
    /\ lastScannedIsbnRef = Null

\* C13: every admitted string (one the lock was set to and a lookup was
\* started for) consists of 13 decimal digits, the first three being 978 or
\* 979
C13_ValidationPolicy ==
  LET Digits == {"0", "1", "2", "3", "4", "5", "6", "7", "8", "9"}
      IsIsbn13(s) == /\ Len(s) = 13
                     /\ \A i \in 1 .. 13 : SubSeq(s, i, i) \in Digits
                     /\ MatchesIsbnPrefix(s)
  IN /\ \A c \in CycleIds : IsIsbn13(cycles[c].isbn)
     /\ lastScannedIsbnRef # Null => IsIsbn13(lastScannedIsbnRef)

\* C14: a cycle has armed no re-arm timer before its terminal outcome and
\* exactly one at it, whatever the outcome; and no two pending re-arm timers
\* belong to cycles of the same ISBN
C14_OneTimerPerCycle ==
  /\ \A c \in CycleIds :
       cycles[c].timersArmed = (IF Done(c) THEN 1 ELSE 0)
  /\ \A i, j \in DOMAIN timers :
       i # j => cycles[timers[i].cycle].isbn # cycles[timers[j].cycle].isbn

\* C15: the record a cycle inserted carries the category that was selected in
\* the pull-down when the cycle was admitted, null if none was selected
C15_CategoryAtScanTime ==
  \A c \in CycleIds :
    cycles[c].rowId > 0 =>
      dbBooks[cycles[c].rowId].category =
        (IF cycles[c].categoryAtScan = "" THEN Null
         ELSE cycles[c].categoryAtScan)

\* C16: the draft a cycle handed to addBookToDB, from whichever provider, has
\* a cover that is empty or does not begin with http://
C16_SecureCover ==
  \A c \in CycleIds :
    cycles[c].insertData # JSUndefined =>
      \/ cycles[c].insertData.cover_url = ""
      \/ ~StartsWith(cycles[c].insertData.cover_url, "http://")

\* C17: a cycle that got a first volume from the secondary provider built its
\* draft and handed it to addBookToDB without an error caught; the draft has
\* the author sentinel if the volume has no authors field, the empty cover if
\* it has no imageLinks or imageLinks without thumbnail, and the title or
\* publisher sentinel if the title or publisher is absent
C17_NormalizationDefaults ==
  \A c \in CycleIds :
    cycles[c].secondaryResult = "items" =>
      LET info == cycles[c].info
          draft == cycles[c].insertData
      IN /\ draft # JSUndefined
         /\ cycles[c].dupQueries = 1
         /\ cycles[c].caught = Undefined
         /\ draft.isbn = cycles[c].isbn
         /\ ~IsObject(info.authors) => draft.author = "author unknown"
         /\ (~IsObject(info.imageLinks) \/ ~Truthy(info.imageLinks.thumbnail))
              => draft.cover_url = ""
         /\ ~Truthy(info.title) => draft.title = "title unknown"
         /\ ~Truthy(info.publisher) => draft.publisher = "publisher unknown"

C17_Witness ==
  \E c \in CycleIds :
    /\ cycles[c].secondaryResult = "items"
    /\ cycles[c].info = [type |-> "object", title |-> Undefined,
                         authors |-> JSUndefined, publisher |-> Undefined,
                         imageLinks |-> JSUndefined]
    /\ cycles[c].rowId > 0
    /\ dbBooks[cycles[c].rowId].author = "author unknown"
    /\ dbBooks[cycles[c].rowId].cover_url = ""

\* C18: the draft built from a volume with an authors list has the author
\* sentinel if the list is empty and the authors joined with ", " in the
\* provider's order otherwise
C18_AuthorSentinelOnEmptyList ==
  \A c \in CycleIds :
    (cycles[c].secondaryResult = "items" /\ IsObject(cycles[c].info.authors))
    => cycles[c].insertData.author =
         (IF cycles[c].info.authors.items = <<>> THEN "author unknown"
          ELSE Join(cycles[c].info.authors.items, ", "))

\* C19: the in-memory list changes only in a step that takes a fetchBooks
\* response, so not between a call of addBookToDB and such a response; a
\* cycle has issued one re-fetch if it is past a successful insert and none
\* otherwise (none after a failed insert); and a fetch request is issued only
\* by the step that resumes a cycle after a successful insert, one at a time
C19_NoOptimisticInsert ==
  /\ [][books' # books =>
         \E data \in BagToSet(fetchResponses) :
           /\ fetchResponses' = fetchResponses (-) SetToBag({data})
           /\ cycles' = cycles]_vars
  /\ [](\A c \in CycleIds :
         cycles[c].fetches =
           (IF Done(c) /\ cycles[c].storeResult = "ok" THEN 1 ELSE 0))
  /\ [][fetchSent' > fetchSent =>
         /\ fetchSent' = fetchSent + 1
         /\ \E c \in CycleIds :
              /\ cycles[c].pc = "insResp" /\ cycles[c].storeResult = "ok"
              /\ cycles'[c].pc = "done"
              /\ cycles'[c].fetches = 1]_vars

C19_Witness ==
  \E c1, c2 \in CycleIds :
    /\ Done(c1) /\ cycles[c1].storeResult = "ok"
    /\ Done(c2) /\ cycles[c2].storeResult = "error"
    /\ Len(dbBooks) = 1
    /\ books = <<>>
    /\ fetchSent + Cardinality(BagToSet(fetchResponses)) > 0

\* C20: when the tone fails, the admission step still sets the lock to the
\* admitted string and issues the primary lookup; a cycle whose tone failed
\* has its primary lookup issued, eventually reaches its terminal outcome with
\* a re-arm timer armed, and the lock it set is eventually cleared
C20_AdvisoryTone ==
  /\ [][(~audioWorks /\ Len(cycles') > Len(cycles)) =>
         /\ lastScannedIsbnRef' = Last(cycles').isbn
         /\ Last(cycles').beepFailures = 1
         /\ Last(cycles').pc = "primary"
         /\ Last(cycles').primaryCalls = 1]_vars
  /\ [](\A c \in CycleIds :
         cycles[c].beepFailures > 0 =>
           /\ cycles[c].primaryCalls = 1
           /\ Done(c) => cycles[c].timersArmed >= 1)
  /\ \A c \in 1 .. MaxCycles :
       (c \in CycleIds /\ cycles[c].beepFailures > 0)
         ~> (c \in CycleIds /\ Done(c) /\ cycles[c].timersArmed >= 1)
  /\ (~audioWorks /\ lastScannedIsbnRef # Null) ~> (lastScannedIsbnRef = Null)

C20_Witness ==
  /\ ~audioWorks
  /\ lastScannedIsbnRef = Null
  /\ \E c \in CycleIds :
       /\ cycles[c].beepFailures = 2
       /\ cycles[c].beeps = 2
       /\ cycles[c].primaryCalls = 1
       /\ Released(c)

\* C21: cycles are admitted only while the camera is open; the step that
\* closes the camera changes no cycle, timer, lock, message or record; a cycle
\* in flight while the camera is closed still reaches its terminal outcome
\* with a re-arm timer armed, and the lock is still cleared
C21_NoCancellationOnClose ==
  /\ [][Len(cycles') > Len(cycles) => isCameraOpen]_vars
  /\ [][(isCameraOpen /\ ~isCameraOpen') =>
         UNCHANGED <<cycles, timers, lastScannedIsbnRef, scanMessage,
                     dbBooks>>]_vars
  /\ \A c \in 1 .. CategoryCycles :
       (c \in CycleIds /\ ~Done(c) /\ ~isCameraOpen)
         ~> (c \in CycleIds /\ Done(c) /\ cycles[c].timersArmed >= 1)
  /\ (lastScannedIsbnRef # Null) ~> (lastScannedIsbnRef = Null)

C21_Witness ==
  /\ ~isCameraOpen
  /\ \E c \in CycleIds :
       /\ cycles[c].pc = "insSent"
       /\ lastScannedIsbnRef = cycles[c].isbn

\* C22: of two cycles of the same ISBN the earlier one is at its terminal
\* outcome: no two of them are in flight at once
C22_SameCodeExclusion ==
  \A c1, c2 \in CycleIds :
    (c1 < c2 /\ cycles[c1].isbn = cycles[c2].isbn) => Done(c1)

\* C23: while a cycle is in flight and holds the lock, the decoder callback
\* for a different code that passes the pattern is admitted: it can start a
\* cycle of its own; and every cycle, in flight or not, has issued its own
\* primary lookup and at most one secondary lookup
C23_DifferentCodeConcurrency ==
  /\ \A c \in CycleIds : \A s \in RawScans :
       ( /\ isCameraOpen /\ Len(cycles) < MaxCycles
         /\ ~Done(c) /\ lastScannedIsbnRef = cycles[c].isbn
         /\ s # cycles[c].isbn /\ MatchesIsbnPrefix(s) )
       => ENABLED ( /\ handleScanSuccess(s)
                    /\ lastScannedIsbnRef' = s
                    /\ Len(cycles') = Len(cycles) + 1
                    /\ UNCHANGED lastCall )
  /\ \A c \in CycleIds :
       cycles[c].primaryCalls = 1 /\ cycles[c].secondaryCalls <= 1

C23_Witness ==
  \E c1, c2 \in CycleIds :
    /\ cycles[c1].isbn = ISBN_A /\ cycles[c2].isbn = ISBN_B
    /\ cycles[c1].pc = "secondary" /\ cycles[c1].secondaryCalls = 1
    /\ cycles[c2].pc = "primary" /\ cycles[c2].primaryCalls = 1

\* C25: a step in which a cycle issues its insert resumes that cycle from a
\* duplicate query, made for the ISBN the cycle was admitted for, that the
\* store answered with an empty list
C25_DuplicateFilterAlwaysRuns ==
  [][\A c \in CycleIds :
       cycles'[c].inserts > cycles[c].inserts =>
         /\ cycles[c].pc = "dupResp"
         /\ cycles[c].dupQueries = 1
         /\ cycles[c].insertData.isbn = cycles[c].isbn
         /\ IsObject(cycles[c].resp)
         /\ cycles[c].resp.items = <<>>]_vars

\* C30: while no re-arm timer of the cycle that announced last has fired or is
\* due, the message on display is the one that cycle announced last
C30_MessageLifetime ==
  \A c \in CycleIds :
    ( /\ Done(c)
      /\ cycles[c].announced # <<>>
      /\ Cardinality(PendingTimers(c)) = cycles[c].timersArmed
      /\ \A i \in PendingTimers(c) : timers[i].remaining > 0
      /\ Last(timers).cycle = c )
    => scanMessage = Last(cycles[c].announced)

\* C26: a step that changes the lock either clears it and is the callback of
\* a due re-arm timer, or sets it to the string of the cycle admitted in that
\* very step; and a step of the manual add, the delete, the status edit, the
\* category pull-down, the list fetch or the camera button leaves the lock as
\* it is
C26_LockWriters ==
  /\ [][lastScannedIsbnRef' # lastScannedIsbnRef =>
         \/ /\ lastScannedIsbnRef' = Null
            /\ timers # <<>> /\ Head(timers).remaining = 0
            /\ timers' = Tail(timers)
         \/ /\ lastScannedIsbnRef' # Null
            /\ Len(cycles') = Len(cycles) + 1
            /\ Last(cycles').isbn = lastScannedIsbnRef'
            /\ Last(cycles').pc = "primary"]_vars
  /\ [][( \/ requests' # requests
          \/ selectedCategory' # selectedCategory
          \/ isCameraOpen' # isCameraOpen
          \/ books' # books
          \/ fetchSent' # fetchSent
          \/ fetchResponses' # fetchResponses )
        => lastScannedIsbnRef' = lastScannedIsbnRef]_vars

C26_Witness ==
  /\ lastScannedIsbnRef # Null
  /\ ~isCameraOpen
  /\ selectedCategory # scannerCategory
  /\ \E q \in DOMAIN requests :
       requests[q].op = "update" /\ requests[q].pc = "done"

\* C28: the payload of every insert, of a scan cycle or of a manual add, has
\* status Unread; the step in which a scan cycle builds its payload gives it
\* the category its handler sees selected in the pull-down, null if none,
\* and the step of a manual add gives its payload the selected category, null
\* if none: never a category carried by the provider's draft
C28_CreationStatus ==
  /\ [](\A c \in CycleIds :
         cycles[c].insertData # JSUndefined =>
           /\ cycles[c].insertData.status = "Unread"
           /\ cycles[c].insertData.category
                \in {IF cat = "" THEN Null ELSE cat : cat \in CategoryOptions})
  /\ [](\A q \in DOMAIN requests :
         requests[q].op = "insert" =>
           /\ requests[q].payload.status = "Unread"
           /\ requests[q].payload.category
                \in {IF cat = "" THEN Null ELSE cat : cat \in CategoryOptions})
  /\ [][\A c \in CycleIds :
         cycles'[c].insertData # cycles[c].insertData =>
           cycles'[c].insertData.category = (IF scannerCategory = "" THEN Null
              ELSE scannerCategory)]_vars
  /\ [][Len(requests') > Len(requests) /\ Last(requests').op = "insert" =>
         Last(requests').payload.category = (IF selectedCategory = "" THEN Null
            ELSE selectedCategory)]_vars

C28_Witness ==
  /\ \E c \in CycleIds :
       /\ cycles[c].primaryResult = "summary"
       /\ cycles[c].rowId > 0
       /\ dbBooks[cycles[c].rowId].category = "Novel"
  /\ \E q \in DOMAIN requests :
       /\ requests[q].op = "insert" /\ requests[q].pc = "done"
       /\ requests[q].payload.category = Null
       /\ ~requests[q].error

\* C27: the title, the author and the publisher of every payload a scan
\* cycle built from a draft are present: neither undefined nor null
C27_DraftFieldsNeverAbsent ==
  \A c \in CycleIds :
    cycles[c].insertData # JSUndefined =>
      /\ cycles[c].insertData.title \notin {Null, Undefined}
      /\ cycles[c].insertData.author \notin {Null, Undefined}
      /\ cycles[c].insertData.publisher \notin {Null, Undefined}

\* C29: the draft of a cycle that got volumes from the secondary provider is
\* the normalisation of the first volume of the answer, with the ISBN the
\* cycle was admitted for; and no cycle makes more than one insert call
C29_FirstMatchOnly ==
  /\ \A c \in CycleIds :
       cycles[c].secondaryResult = "items" =>
         LET first == cycles[c].googleItems[1].volumeInfo
             draft == cycles[c].insertData
         IN /\ draft.isbn = cycles[c].isbn
            /\ draft.title =
                 (IF Truthy(first.title) THEN first.title ELSE "title unknown")
            /\ draft.publisher =
                 (IF Truthy(first.publisher) THEN first.publisher
                  ELSE "publisher unknown")
            /\ (IsObject(first.authors) /\ first.authors.items # <<>>) =>
                 draft.author = Join(first.authors.items, ", ")
            /\ (IsObject(first.imageLinks)
                  /\ Truthy(first.imageLinks.thumbnail)) =>
                 draft.cover_url =
                   Replace(first.imageLinks.thumbnail, "http://", "https://")
  /\ \A c \in CycleIds : cycles[c].inserts <= 1

C29_Witness ==
  \E c \in CycleIds :
    /\ Len(cycles[c].googleItems) = 2
    /\ cycles[c].inserts = 1
    /\ cycles[c].rowId > 0
    /\ dbBooks[cycles[c].rowId].title = "G"
    /\ dbBooks[cycles[c].rowId].author = "A, B"
    /\ dbBooks[cycles[c].rowId].cover_url = "https://g/1.jpg"
    /\ dbBooks[cycles[c].rowId].isbn = cycles[c].isbn

\* C24: a decoder callback that passes the lock comparison and the pattern
\* check sets the lock to its code and starts the cycle in the same step, and
\* a callback that fails either starts nothing; so a callback for the code of
\* the callback before it, with no timeout run in between, is rejected if
\* that one was admitted (and if that one was rejected, no cycle for the code
\* was started by either unless the lock held the code already)
C24_AtomicAdmission ==
  /\ [][(lastCall'.flip # lastCall.flip) =>
          /\ lastCall'.admitted <=> (Len(cycles') = Len(cycles) + 1)
          /\ lastCall'.admitted =>
               /\ lastScannedIsbnRef' = lastCall'.arg
               /\ cycles'[Len(cycles')].isbn = lastCall'.arg
               /\ SubSeq(cycles', 1, Len(cycles)) = cycles
          /\ ~lastCall'.admitted =>
               UNCHANGED <<lastScannedIsbnRef, cycles>>]_vars
  /\ [][(/\ lastCall'.flip # lastCall.flip
          /\ lastCall.admitted
          /\ lastCall'.arg = lastCall.arg
          /\ lastCall.timeouts = TimeoutsRun) =>
          /\ ~lastCall'.admitted
          /\ UNCHANGED <<lastScannedIsbnRef, cycles>>]_vars

\* the second of two callbacks for one code has been rejected, the first one
\* admitted, while the first one's cycle is still at its first await
C24_Witness ==
  /\ ~lastCall.admitted
  /\ lastCall.arg \in {ISBN_A, ISBN_B}
  /\ lastCall.timeouts = TimeoutsRun
  /\ lastScannedIsbnRef = lastCall.arg
  /\ \E c \in CycleIds :
       /\ cycles[c].isbn = lastCall.arg
       /\ cycles[c].pc = "primary"
  /\ Cardinality({c \in CycleIds : cycles[c].isbn = lastCall.arg}) = 1

\* C31: a cycle issues the insert of a payload that has an isbn only when
\* resumed with a duplicate query that the store served and that returned
\* no record; a failed query (no data) is not followed by the insert
C31_DuplicateQueryFailure ==
  [][\A c \in CycleIds :
       (/\ cycles[c].pc # "insSent"
        /\ cycles'[c].pc = "insSent"
        /\ Truthy(cycles'[c].insertData.isbn)) =>
         /\ cycles[c].pc = "dupResp"
         /\ IsObject(cycles[c].resp)
         /\ cycles[c].resp.items = <<>>]_vars

\* no insert, delete, status update or fetchBooks call is between its
\* request and the end of the handler that awaits it
StoreCallsCompleted ==
  /\ \A c \in CycleIds : cycles[c].pc \notin {"insSent", "insResp"}
  /\ \A q \in DOMAIN requests : requests[q].pc = "done"
  /\ fetchSent = 0
  /\ fetchResponses = EmptyBag

\* C32: when every insert, delete and fetchBooks call has completed, the list
\* in memory is the store's collection, newest first
C32_ListConvergence ==
  StoreCallsCompleted => books = Reverse(SelectSeq(dbBooks, IsLive))

\* C33: when a status edit and every store call have completed, the list
\* shows for the edited book the status the store holds for it
C33_StatusEditReconciliation ==
  \A q \in DOMAIN requests :
    (requests[q].op = "update" /\ StoreCallsCompleted) =>
      \A i \in DOMAIN books :
        books[i].id = requests[q].id =>
          books[i].status = dbBooks[requests[q].id].status

\* C34: no insert of an empty title is ever requested (the add button with
\* an empty field does nothing); the add button with a title requests one
\* insert of a record with that title and no isbn, clears the field, and
\* leaves the scan cycles (and so their duplicate queries), the message, the
\* timers, the lock, the list and the store alone; the store makes one row
\* of it, with no isbn; and the handler resumed with the result announces
\* nothing and arms no timer
C34_ManualAdd ==
  /\ [](\A q \in DOMAIN requests :
          requests[q].op = "insert" => requests[q].payload.title # "")
  /\ [][(/\ Len(requests') = Len(requests) + 1
          /\ requests'[Len(requests')].op = "insert") =>
          /\ inputText # ""
          /\ requests'[Len(requests')].payload.title = inputText
          /\ "isbn" \notin DOMAIN requests'[Len(requests')].payload
          /\ SubSeq(requests', 1, Len(requests)) = requests
          /\ inputText' = ""
          /\ UNCHANGED <<lastScannedIsbnRef, scanMessage, books, dbBooks,
                         cycles, timers, fetchSent, fetchResponses>>]_vars
  /\ [][\A q \in DOMAIN requests :
          (/\ requests[q].op = "insert"
           /\ requests[q].pc = "sent"
           /\ requests'[q].pc = "resp") =>
            IF requests'[q].error THEN dbBooks' = dbBooks
            ELSE /\ Len(dbBooks') = Len(dbBooks) + 1
                 /\ SubSeq(dbBooks', 1, Len(dbBooks)) = dbBooks
                 /\ dbBooks'[Len(dbBooks')].title = requests[q].payload.title
                 /\ dbBooks'[Len(dbBooks')].isbn = Null]_vars
  /\ [][\A q \in DOMAIN requests :
          (/\ requests[q].op = "insert"
           /\ requests[q].pc = "resp"
           /\ requests'[q].pc = "done") =>
            UNCHANGED <<lastScannedIsbnRef, scanMessage, books, dbBooks,
                        cycles, timers, inputText>>]_vars

\* a title added by hand is in the store, the field is empty again, and
\* no scan has taken place
C34_Witness ==
  /\ inputText = ""
  /\ cycles = <<>>
  /\ timers = <<>>
  /\ scanMessage = ""
  /\ \E q \in DOMAIN requests :
       /\ requests[q].op = "insert"
       /\ requests[q].pc = "done"
       /\ ~requests[q].error
  /\ \E j \in DOMAIN dbBooks :
       /\ dbBooks[j].title = "My book"
       /\ dbBooks[j].isbn = Null

====
